---- MODULE Spec2Model ----
(***************************************************************************)
(* A model of the Continuity & Context Engine of Story_Generation:         *)
(*   core/memory_manager.py  MemoryManager  (ContinuityStore, SemanticIndex)*)
(*   core/generator.py       EpisodicGenerator (SceneGenerationLoop)        *)
(*   core/refiner.py         Refiner (critique, ExtractionAdapter)          *)
(*   core/pipeline.py        StoryPipeline (EpisodeOrchestrator)            *)
(*                                                                         *)
(* Python values are modelled as follows.  A dict is a sequence of records *)
(* in insertion order, each record carrying its dict key in the field      *)
(* "key".  A text is a sequence of tokens: "x in text" is token            *)
(* membership, text.endswith(x) looks at the last token, and "\n\n".join   *)
(* is concatenation.  Python's None is the string PyNone.                   *)
(***************************************************************************)
EXTENDS Integers, Sequences, FiniteSets, TLC

VARIABLES
    \* MemoryManager (memory_manager.py:50-52)
    characters, plot_points, plot_counter,
    \* the three files under db_path (memory_manager.py:59-61)
    disk,
    \* observation of the store: the last operation, its arguments and result
    last,
    \* observation of the instance: the number of its add_plot_point calls, and
    \* whether it was constructed over an empty location
    addCalls, emptyStart,
    \* the number of saves that failed so far
    saveFailures,
    \* EpisodicGenerator.generate_episode_script: its locals and position
    gen,
    \* observation of the generation service: the requests it received
    calls,
    \* StoryPipeline (pipeline.py:26-27)
    story_plan, generated_episodes,
    \* MemoryManager.vector_store (memory_manager.py:36-46) and its documents
    vector_store,
    \* observation of the pipeline: the last call, what it passed to the
    \* services and what it returned
    run,
    \* the number of pipeline calls made so far
    pipelineCalls,
    \* observation of the pipeline: what each generate_episode that reached
    \* the storing of its results stored, in call order
    persistLog,
    \* the MemoryManager of each of two stories created side by side
    stories,
    \* the threads that call one MemoryManager at the same time: where each
    \* is in its call, its locals, and what its calls have returned
    threads

storeVars == <<characters, plot_points, plot_counter, disk, last,
               addCalls, emptyStart, saveFailures>>

genVars == <<gen, calls>>

pipeVars == <<story_plan, generated_episodes, vector_store, run, pipelineCalls,
              persistLog>>

vars == <<characters, plot_points, plot_counter, disk, last,
          addCalls, emptyStart, saveFailures, gen, calls,
          story_plan, generated_episodes, vector_store, run, pipelineCalls,
          persistLog, stories, threads>>

-----------------------------------------------------------------------------
(* Bounds and input domains *)

\* greatest number of history entries (state_history plus status_history)
\* the store holds before a further mutation is tried
MaxEntries == 3

\* greatest number of failing saves in one behaviour
MaxSaveFailures == 1

\* greatest number of generation requests recorded in one run
MaxTrace == 12

\* greatest number of plan_story and generate_episode calls in one behaviour
MaxPipelineCalls == 3

PyNone == "<None>"

\* episode numbers passed to the store operations, in any order
Episodes == {1, 2}

\* episode numbers context is asked for
Targets == {1, 2, 3}

\* update.get("name") of refiner.py:130 is a string or None
Names == {"Ann", PyNone}

\* add_plot_point's default status (memory_manager.py:158), and the statuses
\* update_plot_status is given
DefaultStatus == "introduced"

Statuses == {"introduced", "resolved"}

Changes == {"c"}

Summaries == {"s"}

\* plot ids passed to update_plot_status: known ones and an unknown one
UnknownId == 9

-----------------------------------------------------------------------------
(* Python dict and str *)

Digit == <<"0", "1", "2", "3", "4", "5", "6", "7", "8", "9">>

RECURSIVE Str(_)
Str(n) == IF n < 10 THEN Digit[n + 1] ELSE Str(n \div 10) \o Digit[(n % 10) + 1]

HasKey(tbl, k) == \E i \in 1..Len(tbl) : tbl[i].key = k

IndexOfKey(tbl, k) == CHOOSE i \in 1..Len(tbl) : tbl[i].key = k

DictGet(tbl, k) == tbl[IndexOfKey(tbl, k)]

\* d[k] = v: an existing key keeps its position, a new key goes last
DictSet(tbl, v) ==
    IF HasKey(tbl, v.key) THEN [tbl EXCEPT ![IndexOfKey(tbl, v.key)] = v]
    ELSE Append(tbl, v)

RECURSIVE SumLen(_, _)
SumLen(tbl, field) ==
    IF tbl = <<>> THEN 0
    ELSE Len(Head(tbl)[field]) + SumLen(Tail(tbl), field)

TotalEntries ==
    SumLen(characters, "state_history") + SumLen(plot_points, "status_history")

IsPrefix(s, t) == Len(s) <= Len(t) /\ SubSeq(t, 1, Len(s)) = s

-----------------------------------------------------------------------------
(* MemoryManager: the mutating operations on the in-memory tables *)

\* a slip in the creation test: first_appearance is stamped on every call
UpdateCharacterStateRestamping(chars, character_name, state_change, episode_number) ==
    LET c1 == IF HasKey(chars, character_name) THEN chars
              ELSE Append(chars, [key |-> character_name,
                                  name |-> character_name,
                                  first_appearance |-> episode_number,
                                  state_history |-> <<>>])
        i == IndexOfKey(c1, character_name)
    IN [c1 EXCEPT ![i].first_appearance = episode_number,
                  ![i].state_history =
            Append(@, [episode |-> episode_number, change |-> state_change])]

UpdateCharacterState(chars, character_name, state_change, episode_number) ==
    LET c1 == IF HasKey(chars, character_name) THEN chars
              ELSE Append(chars, [key |-> character_name,
                                  name |-> character_name,
                                  first_appearance |-> episode_number,
                                  state_history |-> <<>>])
        i == IndexOfKey(c1, character_name)
    IN [c1 EXCEPT ![i].state_history =
            Append(@, [episode |-> episode_number, change |-> state_change])]

\* a slip in the id assignment: the counter is not advanced past the first id
NextPlotIdRepeating(counter) == IF counter = 0 THEN 1 ELSE counter

\* add_plot_point: self.plot_counter += 1; plot_id = self.plot_counter
NextPlotId(counter) == counter + 1

AddPlotPoint(plots, plot_id, summary, status, episode_added) ==
    DictSet(plots, [key |-> Str(plot_id),
                    id |-> plot_id,
                    summary |-> summary,
                    status |-> status,
                    episode_added |-> episode_added,
                    status_history |->
                        <<[episode |-> episode_added, status |-> status]>>])

\* a slip in the update: the new status is written to every plot point
UpdatePlotStatusEverywhere(plots, plot_id, new_status, episode_number) ==
    LET i == IndexOfKey(plots, Str(plot_id))
    IN [j \in DOMAIN plots |->
            IF j = i
            THEN [plots[j] EXCEPT !.status = new_status,
                                  !.status_history =
                                     Append(@, [episode |-> episode_number,
                                                status |-> new_status])]
            ELSE [plots[j] EXCEPT !.status = new_status]]

UpdatePlotStatus(plots, plot_id, new_status, episode_number) ==
    LET i == IndexOfKey(plots, Str(plot_id))
    IN [plots EXCEPT ![i].status = new_status,
                     ![i].status_history =
                        Append(@, [episode |-> episode_number,
                                   status |-> new_status])]

-----------------------------------------------------------------------------
(* Persistence: json.dump / json.load of the three files *)

\* json.dump writes a None key as "null"; a str key is written as it is
JsonKey(k) == IF k = PyNone THEN "null" ELSE k

\* the object json.dump writes for a table: its members in order
JsonDump(tbl) == [i \in 1..Len(tbl) |-> [tbl[i] EXCEPT !.key = JsonKey(@)]]

\* json.load builds the dict member by member: a repeated key keeps the
\* position of its first occurrence and the value of its last
RECURSIVE JsonLoadFrom(_, _)
JsonLoadFrom(acc, members) ==
    IF members = <<>> THEN acc
    ELSE JsonLoadFrom(DictSet(acc, Head(members)), Tail(members))

JsonLoad(members) == JsonLoadFrom(<<>>, members)

\* the three files in the order they are read and written:
\* characters.json, plots.json, counter.json
CharsFile == 1
PlotsFile == 2
CounterFile == 3

\* `bad` holds the files that exist but cannot be parsed by json.load
EmptyDisk ==
    [hasChars |-> FALSE, chars |-> <<>>,
     hasPlots |-> FALSE, plots |-> <<>>,
     hasCounter |-> FALSE, counter |-> 0,
     bad |-> {}]

\* _save_persistent_data with `written` files replaced before an error is
\* raised and swallowed (3: no error)
SavePersistentData(d, chars, plots, counter, written) ==
    [hasChars |-> d.hasChars \/ written >= 1,
     chars |-> IF written >= 1 THEN JsonDump(chars) ELSE d.chars,
     hasPlots |-> d.hasPlots \/ written >= 2,
     plots |-> IF written >= 2 THEN JsonDump(plots) ELSE d.plots,
     hasCounter |-> d.hasCounter \/ written >= 3,
     counter |-> IF written >= 3 THEN counter ELSE d.counter,
     bad |-> d.bad \ (1..written)]

\* the three loads share one try block: json.load raising on file j leaves
\* the function, so file k is read only when no file up to k is unparseable
Reads(d, k) == \A j \in d.bad : j > k

\* __init__ followed by _load_persistent_data
LoadPersistentData(d) ==
    [characters |-> IF d.hasChars /\ Reads(d, CharsFile)
                    THEN JsonLoad(d.chars) ELSE <<>>,
     plot_points |-> IF d.hasPlots /\ Reads(d, PlotsFile)
                     THEN JsonLoad(d.plots) ELSE <<>>,
     plot_counter |-> IF d.hasCounter /\ Reads(d, CounterFile)
                      THEN d.counter ELSE 0]

\* the outcomes of a save: the number of files written
\* a slip in the error handling: a failed save undoes the operation
MemoryRolledBack(before, after, written) ==
    IF written < 3 THEN before ELSE after

\* the except clause of _save_persistent_data only logs: the tables stay as
\* the operation left them
MemoryAfterSave(before, after, written) == after

SaveOutcomes == IF saveFailures < MaxSaveFailures THEN 0..3 ELSE {3}

Failed(written) == IF written < 3 THEN 1 ELSE 0

-----------------------------------------------------------------------------
(* MemoryManager.get_context_summary *)

\* a slip in the causal filter: the target episode itself is let through
RelevantHistoryInclusive(history, episode_number) ==
    SelectSeq(history, LAMBDA e : e.episode <= episode_number)

\* [change for change in history if change.get("episode", inf) < episode_number]
RelevantHistory(history, episode_number) ==
    SelectSeq(history, LAMBDA e : e.episode < episode_number)

\* a slip in the slice: the oldest entries instead of the latest
FirstN(s, n) == IF Len(s) <= n THEN s ELSE SubSeq(s, 1, n)

LastN(s, n) == IF Len(s) <= n THEN s ELSE SubSeq(s, Len(s) - n + 1, Len(s))

\* one rendered line per character that has appeared and has a relevant entry
CharacterLine(c, episode_number) ==
    [name |-> c.key,
     entries |-> LastN(RelevantHistory(c.state_history, episode_number), 2)]

PlotLine(p, episode_number) ==
    [summary |-> p.summary,
     entries |-> LastN(RelevantHistory(p.status_history, episode_number), 1)]

CharacterShown(c, episode_number) ==
    /\ c.first_appearance < episode_number
    /\ RelevantHistory(c.state_history, episode_number) /= <<>>

PlotShown(p, episode_number) ==
    /\ p.episode_added < episode_number
    /\ RelevantHistory(p.status_history, episode_number) /= <<>>

RECURSIVE CharacterSummary(_, _)
CharacterSummary(chars, episode_number) ==
    IF chars = <<>> THEN <<>>
    ELSE (IF CharacterShown(Head(chars), episode_number)
          THEN <<CharacterLine(Head(chars), episode_number)>> ELSE <<>>)
         \o CharacterSummary(Tail(chars), episode_number)

RECURSIVE PlotSummary(_, _)
PlotSummary(plots, episode_number) ==
    IF plots = <<>> THEN <<>>
    ELSE (IF PlotShown(Head(plots), episode_number)
          THEN <<PlotLine(Head(plots), episode_number)>> ELSE <<>>)
         \o PlotSummary(Tail(plots), episode_number)

GetContextSummary(chars, plots, episode_number) ==
    [characters |-> CharacterSummary(chars, episode_number),
     plots |-> PlotSummary(plots, episode_number)]

EmptyContext == [characters |-> <<>>, plots |-> <<>>]

-----------------------------------------------------------------------------
(* EpisodicGenerator (generator.py) *)

MAX_SCENES_PER_EPISODE == 10

EndMarker == "# EPISODE END"

SceneError == "Error generating Scene"

ScriptError == "Error generating script"

Separator == "\n\n"

Contains(text, token) == \E i \in DOMAIN text : text[i] = token

EndsWith(text, token) == text /= <<>> /\ text[Len(text)] = token

RECURSIVE Join(_)
Join(texts) ==
    IF texts = <<>> THEN <<>>
    ELSE IF Len(texts) = 1 THEN Head(texts)
    ELSE Head(texts) \o <<Separator>> \o Join(Tail(texts))

\* what the generation service may answer: a text, or an error
SceneTexts ==
    {<<"INT. LAB">>,
     <<"INT. LAB", EndMarker>>,
     <<EndMarker, "FADE OUT">>,
     <<"ANN", SceneError>>,
     <<"ANN", ScriptError, EndMarker>>}

ServiceError == [ok |-> FALSE, content |-> <<>>]

Responses == {[ok |-> TRUE, content |-> t] : t \in SceneTexts} \cup {ServiceError}

\* a slip in the summary: only the latest scene is kept
GenerateSceneLatestOnly(scene_number, previous_scene_summary, response) ==
    IF response.ok
    THEN [scene_script |-> response.content,
          updated_summary |-> <<Separator>> \o response.content,
          episode_complete |-> EndsWith(response.content, EndMarker)]
    ELSE [scene_script |-> <<SceneError, Str(scene_number)>>,
          updated_summary |-> <<"Error">>,
          episode_complete |-> TRUE]

\* _generate_scene: (scene_script, updated summary, episode_complete)
GenerateScene(scene_number, previous_scene_summary, response) ==
    IF response.ok
    THEN [scene_script |-> response.content,
          updated_summary |->
              previous_scene_summary \o <<Separator>> \o response.content,
          episode_complete |-> EndsWith(response.content, EndMarker)]
    ELSE [scene_script |-> <<SceneError, Str(scene_number)>>,
          updated_summary |-> <<"Error">>,
          episode_complete |-> TRUE]

\* the previous-scene part of the prompt (generator.py:35-36)
PreviousScenePrompt(scene_number, previous_scene_summary) ==
    IF scene_number > 1 THEN previous_scene_summary
    ELSE <<"This is the first scene.">>

SceneErrorMarker(scene_number) ==
    <<"ERROR GENERATING SCENE", Str(scene_number), ": Generation stopped.">>

SceneLimitMarker == <<"# SCENE LIMIT REACHED - EPISODE INCOMPLETE">>

GenStart ==
    [pc |-> "loop",
     scene_number |-> 1,
     full_episode_script |-> <<>>,
     previous_scenes_summary |-> <<>>,
     episode_complete |-> FALSE]

\* a slip in the loop condition: the scene cap is not tested
LoopConditionUncapped(g) == ~g.episode_complete

\* while scene_number <= MAX_SCENES_PER_EPISODE and not episode_complete
LoopCondition(g) ==
    g.scene_number <= MAX_SCENES_PER_EPISODE /\ ~g.episode_complete

\* a slip in the error branch: the scenes generated so far are dropped
LoopBodyDiscarding(g, response) ==
    LET r == GenerateScene(g.scene_number, g.previous_scenes_summary, response)
        n == g.scene_number + 1
    IN IF Contains(r.scene_script, SceneError)
       THEN [g EXCEPT !.pc = "done",
                      !.episode_complete = r.episode_complete,
                      !.full_episode_script =
                          <<SceneErrorMarker(g.scene_number)>>]
       ELSE [g EXCEPT !.episode_complete = r.episode_complete,
                      !.previous_scenes_summary = r.updated_summary,
                      !.scene_number = n,
                      !.full_episode_script =
                          IF n > MAX_SCENES_PER_EPISODE /\ ~r.episode_complete
                          THEN Append(Append(@, r.scene_script), SceneLimitMarker)
                          ELSE Append(@, r.scene_script)]

\* one iteration of the while loop of generate_episode_script
\* (generator.py:83-104), given the service's answer
LoopBody(g, response) ==
    LET r == GenerateScene(g.scene_number, g.previous_scenes_summary, response)
        n == g.scene_number + 1
    IN IF Contains(r.scene_script, SceneError)
       THEN [g EXCEPT !.pc = "done",
                      !.episode_complete = r.episode_complete,
                      !.full_episode_script =
                          Append(@, SceneErrorMarker(g.scene_number))]
       ELSE [g EXCEPT !.episode_complete = r.episode_complete,
                      !.previous_scenes_summary = r.updated_summary,
                      !.scene_number = n,
                      !.full_episode_script =
                          IF n > MAX_SCENES_PER_EPISODE /\ ~r.episode_complete
                          THEN Append(Append(@, r.scene_script), SceneLimitMarker)
                          ELSE Append(@, r.scene_script)]

\* the value generate_episode_script returns
ScriptOf(g) == Join(g.full_episode_script)

Request(g) ==
    [scene |-> g.scene_number,
     previous |-> PreviousScenePrompt(g.scene_number, g.previous_scenes_summary)]

\* one call of the generation service: what it was asked, and whether it
\* returned a text or raised
ServiceCall(g, response) ==
    [scene |-> Request(g).scene, previous |-> Request(g).previous,
     ok |-> response.ok, content |-> response.content]

-----------------------------------------------------------------------------
(* MemoryManager: the remaining reads, and the vector store *)

\* get_character_summaries: every character with its last three entries
RECURSIVE GetCharacterSummaries(_)
GetCharacterSummaries(chars) ==
    IF chars = <<>> THEN <<>>
    ELSE <<[name |-> Head(chars).key,
            first_appearance |-> Head(chars).first_appearance,
            entries |-> LastN(Head(chars).state_history, 3)]>>
         \o GetCharacterSummaries(Tail(chars))

\* get_active_plot_points: the plot points that are not closed
GetActivePlotPoints(plots) ==
    SelectSeq(plots, LAMBDA p : p.status \notin {"resolved", "completed",
                                                 "abandoned"})

Min(a, b) == IF a <= b THEN a ELSE b

RECURSIVE Pick(_, _, _)
Pick(docs, chosen, i) ==
    IF i > Len(docs) THEN <<>>
    ELSE (IF i \in chosen THEN <<docs[i]>> ELSE <<>>) \o Pick(docs, chosen, i + 1)

\* similarity_search(query, k): the service ranks by similarity to the query;
\* any k of the stored documents may come back
SimilaritySearch(docs, k) ==
    {Pick(docs, chosen, 1) :
        chosen \in {c \in SUBSET DOMAIN docs :
                        Cardinality(c) = Min(k, Len(docs))}}

\* search_similar: the documents found; nothing without the store or when
\* the search raises
SearchSimilar(vs, found, search_ok) ==
    IF vs.up /\ search_ok THEN found ELSE <<>>

\* get_relevant_chunks: the documents found, or a notice without the store
GetRelevantChunks(vs, found) == IF vs.up THEN found ELSE <<>>

\* text_splitter.split_text with chunk_size 1000: the scripts here are
\* shorter than one chunk
SplitText(text) == IF text = <<>> THEN <<>> ELSE <<text>>

\* a slip in the filter: only the empty chunk is dropped
IsEmptyChunk(chunk) == chunk = <<>>

IsBlank(chunk) == \A i \in DOMAIN chunk : chunk[i] \in {"", " ", Separator}

RECURSIVE ChunkDocs(_, _, _)
ChunkDocs(valid_chunks, episode_number, i) ==
    IF i > Len(valid_chunks) THEN <<>>
    ELSE <<[text |-> valid_chunks[i],
            episode |-> episode_number,
            chunk_index |-> i - 1,
            type |-> "script_chunk"]>>
         \o ChunkDocs(valid_chunks, episode_number, i + 1)

\* a slip in the guard: a missing store is left alone
AddChunksToVectorStoreGivingUp(vs, chunks, episode_number, reinit_ok) ==
    LET valid_chunks == SelectSeq(chunks, LAMBDA c : ~IsBlank(c)) IN
    IF ~vs.up THEN vs
    ELSE [up |-> TRUE,
          docs |-> vs.docs \o ChunkDocs(valid_chunks, episode_number, 1)]

\* add_chunks_to_vector_store: re-initialisation when the store is missing
\* (it succeeds or raises), then the write of the chunks that are not blank
AddChunksToVectorStore(vs, chunks, episode_number, reinit_ok) ==
    LET valid_chunks == SelectSeq(chunks, LAMBDA c : ~IsBlank(c)) IN
    IF ~vs.up /\ ~reinit_ok THEN vs
    ELSE [up |-> TRUE,
          docs |-> (IF vs.up THEN vs.docs ELSE <<>>)
                   \o ChunkDocs(valid_chunks, episode_number, 1)]

AddChunksResultUnguarded(vs, chunks, reinit_ok) ==
    SelectSeq(chunks, LAMBDA c : ~IsBlank(c)) /= <<>>

\* what add_chunks_to_vector_store returns: True when chunks were written
AddChunksResult(vs, chunks, reinit_ok) ==
    /\ vs.up \/ reinit_ok
    /\ SelectSeq(chunks, LAMBDA c : ~IsBlank(c)) /= <<>>

\* add_document_chunks(text, metadata) of store_plan
AddDocumentChunks(vs, text, type, episode_number) ==
    IF ~vs.up THEN vs
    ELSE [vs EXCEPT !.docs = Append(@, [text |-> text,
                                        episode |-> episode_number,
                                        chunk_index |-> 0,
                                        type |-> type])]

-----------------------------------------------------------------------------
(* StoryPlanner (planner.py) *)

NoPlan == [none |-> TRUE]

\* a plan the planning service may return
PlanA ==
    [title |-> "t",
     characters |-> <<[name |-> "Ann"]>>,
     master_outline |->
        <<[episode |-> 1, summary |-> "s1", key_points |-> <<"k">>],
          [episode |-> 2, summary |-> "s2", key_points |-> <<>>]>>]

\* another plan, of one episode, with another character
PlanB ==
    [title |-> "u",
     characters |-> <<[name |-> "Bob"]>>,
     master_outline |->
        <<[episode |-> 1, summary |-> "s1", key_points |-> <<>>]>>]

\* generate_initial_plan: the parsed plan, or None when the call raises, the
\* answer is empty or it is not JSON
PlannerOutcomes == {"raises", "empty", "invalid_json", "plan", "plan_b"}

\* a slip in the parsing: an answer that is not JSON is taken for a plan
GenerateInitialPlanUnparsed(outcome) ==
    CASE outcome \in {"plan", "invalid_json"} -> PlanA
      [] outcome = "plan_b" -> PlanB
      [] OTHER -> NoPlan

GenerateInitialPlan(outcome) ==
    CASE outcome = "plan" -> PlanA
      [] outcome = "plan_b" -> PlanB
      [] OTHER -> NoPlan

\* the store as store_plan and update_memory_from_script thread it through
\* their calls: the tables, whether a call raised, whether a save was made
Memory(chars, plots, counter) ==
    [characters |-> chars, plot_points |-> plots, plot_counter |-> counter,
     raised |-> FALSE, saved |-> FALSE, new_ids |-> <<>>]

RECURSIVE StorePlanCharacters(_, _)
StorePlanCharacters(m, cs) ==
    IF cs = <<>> THEN m
    ELSE StorePlanCharacters(
            [m EXCEPT !.characters =
                        UpdateCharacterState(@, Head(cs).name,
                                             "Description: d. Motivation: m", 0),
                      !.saved = TRUE],
            Tail(cs))

MemAddPlotPoint(m, summary, status, episode_added) ==
    [m EXCEPT !.plot_counter = NextPlotId(m.plot_counter),
              !.plot_points = AddPlotPoint(@, NextPlotId(m.plot_counter),
                                           summary, status, episode_added),
              !.saved = TRUE,
              !.new_ids = Append(@, NextPlotId(m.plot_counter))]

RECURSIVE StorePlanKeyPoints(_, _, _)
StorePlanKeyPoints(m, episode, points) ==
    IF points = <<>> THEN m
    ELSE StorePlanKeyPoints(
            MemAddPlotPoint(m, "Episode " \o Str(episode) \o " key point: "
                                   \o Head(points), "planned", 0),
            episode, Tail(points))

RECURSIVE StorePlanOutline(_, _)
StorePlanOutline(m, outline) ==
    IF outline = <<>> THEN m
    ELSE LET e == Head(outline)
             m1 == MemAddPlotPoint(m, "Episode " \o Str(e.episode)
                                        \o " objective: " \o e.summary,
                                   "planned", 0)
         IN StorePlanOutline(StorePlanKeyPoints(m1, e.episode, e.key_points),
                             Tail(outline))

\* store_plan: the characters, then the outline, of the plan
StorePlan(m, plan) ==
    StorePlanOutline(StorePlanCharacters(m, plan.characters), plan.master_outline)

-----------------------------------------------------------------------------
(* Refiner (refiner.py) *)

CritiqueOutcomes == {[ok |-> TRUE, text |-> "Looks good"],
                     [ok |-> FALSE, text |-> ""]}

CritiqueFailedMarker == "Error generating critique."

\* critique_episode returns the pair (script_text, critique)
CritiqueEpisode(script_text, outcome) ==
    <<script_text,
      IF outcome.ok THEN outcome.text ELSE CritiqueFailedMarker>>

GenerationFailedCritique == "Generation failed, no critique available."

\* what the extraction call may come to: an error of the service, a text
\* that is not JSON, or a JSON value
CharacterItem(name, change) ==
    [is_object |-> TRUE, name |-> name, state_change |-> change]

PlotItem(ref, status) ==
    [is_object |-> TRUE, plot_summary_or_id |-> ref, new_status |-> status]

\* a list item that is not an object, such as "Ann"
JunkItem == [is_object |-> FALSE]

\* a reference to a plot point: an integer id, or a summary text
IntRef(n) == [type |-> "int", value |-> n, text |-> ""]

StrRef(t) == [type |-> "str", value |-> 0, text |-> t]

JsonObject(cu, pu, npp) ==
    [kind |-> "json", top |-> "object", empty |-> FALSE,
     character_updates |-> cu, plot_updates |-> pu, new_plot_points |-> npp]

ExtractionOutcomes ==
    {[kind |-> "raises"],
     [kind |-> "invalid_json"],
     \* {}
     [JsonObject(<<>>, <<>>, <<>>) EXCEPT !.empty = TRUE],
     \* a top level that is not an object: [1]
     [JsonObject(<<>>, <<>>, <<>>) EXCEPT !.top = "list"],
     \* a list item that is not an object, after one that is
     JsonObject(<<CharacterItem("Ann", "c"), JunkItem>>, <<>>, <<"s">>),
     \* the expected structure, with a character the plan does not name
     JsonObject(<<CharacterItem("Ann", "c"), CharacterItem("Bob", "c")>>,
                <<PlotItem(StrRef("s"), "resolved"), PlotItem(IntRef(1), "resolved"),
                  PlotItem(IntRef(UnknownId), "resolved")>>,
                <<"s">>)}

\* json.loads inside the try: None unless the answer is JSON
ExtractedInfo(outcome) == outcome.kind = "json"

\* "if extracted_info:" is false for None and for an empty value
Truthy(outcome) == ExtractedInfo(outcome) /\ ~outcome.empty

\* the response is not the structure the prompt asks for
WrongShape(outcome) ==
    /\ outcome.kind = "json"
    /\ \/ outcome.top /= "object"
       \/ \E i \in DOMAIN outcome.character_updates :
             ~outcome.character_updates[i].is_object
       \/ \E i \in DOMAIN outcome.plot_updates :
             ~outcome.plot_updates[i].is_object

\* how the answer of the extraction call relates to the expected structure
ExtractionKind(outcome) ==
    IF WrongShape(outcome) THEN "wrong_shape" ELSE outcome.kind

\* for update in extracted_info.get("character_updates", []): update.get
\* raises AttributeError on an item that is not a dict
RECURSIVE ApplyCharacterUpdates(_, _, _)
ApplyCharacterUpdates(m, updates, episode_number) ==
    IF m.raised \/ updates = <<>> THEN m
    ELSE IF ~Head(updates).is_object THEN [m EXCEPT !.raised = TRUE]
    ELSE ApplyCharacterUpdates(
            [m EXCEPT !.characters =
                        UpdateCharacterState(@, Head(updates).name,
                                             Head(updates).state_change,
                                             episode_number),
                      !.saved = TRUE],
            Tail(updates), episode_number)

\* no plot point: ids start at 1
NoTarget == 0

\* a mapping from summary to id, which the code leaves as a TODO
PlotRefTargetBySummary(plots, ref) ==
    IF ref.type = "int" THEN ref.value
    ELSE IF \E i \in DOMAIN plots : plots[i].summary = ref.text
         THEN plots[CHOOSE i \in DOMAIN plots : plots[i].summary = ref.text].id
         ELSE NoTarget

\* isinstance(plot_id, int): the id to update; a summary text is logged and
\* passed over, and any other value matches neither branch
PlotRefTarget(plots, ref) ==
    IF ref.type = "int" THEN ref.value ELSE NoTarget

RECURSIVE ApplyPlotUpdates(_, _, _)
ApplyPlotUpdates(m, updates, episode_number) ==
    IF m.raised \/ updates = <<>> THEN m
    ELSE IF ~Head(updates).is_object THEN [m EXCEPT !.raised = TRUE]
    ELSE LET ref == Head(updates).plot_summary_or_id
             target == PlotRefTarget(m.plot_points, ref)
             known == target /= NoTarget /\ HasKey(m.plot_points, Str(target))
             m1 == IF known
                   THEN [m EXCEPT !.plot_points =
                                     UpdatePlotStatus(@, target,
                                                      Head(updates).new_status,
                                                      episode_number),
                                  !.saved = TRUE]
                   ELSE m
         IN ApplyPlotUpdates(m1, Tail(updates), episode_number)

RECURSIVE ApplyNewPlotPoints(_, _, _)
ApplyNewPlotPoints(m, summaries, episode_number) ==
    IF m.raised \/ summaries = <<>> THEN m
    ELSE ApplyNewPlotPoints(
            MemAddPlotPoint(m, Head(summaries), DefaultStatus, episode_number),
            Tail(summaries), episode_number)

\* step 3 of update_memory_from_script (refiner.py:126-145)
ApplyExtraction(m, outcome, episode_number) ==
    IF ~Truthy(outcome) THEN m
    ELSE IF outcome.top /= "object" THEN [m EXCEPT !.raised = TRUE]
    ELSE ApplyNewPlotPoints(
            ApplyPlotUpdates(
                ApplyCharacterUpdates(m, outcome.character_updates,
                                      episode_number),
                outcome.plot_updates, episode_number),
            outcome.new_plot_points, episode_number)

-----------------------------------------------------------------------------
(* StoryPipeline (pipeline.py) *)

\* the answers of the generation service during one generate_episode; when
\* they run out the service goes on answering with a plain scene
GenerationBehaviours ==
    {<<[ok |-> TRUE, content |-> <<"INT. LAB", EndMarker>>]>>,
     <<ServiceError>>,
     <<[ok |-> TRUE, content |-> <<"ANN", ScriptError, EndMarker>>]>>}

PlainScene == [ok |-> TRUE, content |-> <<"INT. LAB">>]

\* generate_episode_script run to its return: the loop's final locals, the
\* requests made, and whether a call of the service raised
RECURSIVE RunScenes(_, _, _, _)
RunScenes(g, responses, requests, service_failed) ==
    IF g.pc = "done" \/ ~LoopCondition(g)
    THEN [gen |-> [g EXCEPT !.pc = "done"], calls |-> requests,
          service_failed |-> service_failed]
    ELSE LET response == IF responses = <<>> THEN PlainScene ELSE Head(responses)
             rest == IF responses = <<>> THEN <<>> ELSE Tail(responses)
         IN RunScenes(LoopBody(g, response), rest, Append(requests, ServiceCall(g, response)),
                      service_failed \/ ~response.ok)

\* a slip in the lookup: any number passes once the outline has an episode
InPlanAnyEpisode(plan, episode_number) == plan.master_outline /= <<>>

\* the episode of the outline with this number (pipeline.py:59-63)
InPlan(plan, episode_number) ==
    \E i \in DOMAIN plan.master_outline :
        plan.master_outline[i].episode = episode_number

EpisodeSummary(plan, episode_number) ==
    LET i == CHOOSE j \in DOMAIN plan.master_outline :
                /\ plan.master_outline[j].episode = episode_number
                /\ \A k \in 1..(j - 1) :
                      plan.master_outline[k].episode /= episode_number
    IN plan.master_outline[i].summary

\* "if not script or 'Error generating script' in script"
GenerationFailed(script) == script = <<>> \/ Contains(script, ScriptError)

EpisodeArgs == {1, 2, 3}

\* the limit argument of search_similar: one document, or the default
SearchLimits == {1, 5}

\* self.generated_episodes[episode_number] = {"script": ..., "critique": ...}
StoreEpisodeKeepFirst(episodes, episode_number, script, critique) ==
    IF HasKey(episodes, episode_number) THEN episodes
    ELSE Append(episodes, [key |-> episode_number, script |-> script,
                           critique |-> critique])

StoreEpisode(episodes, episode_number, script, critique) ==
    DictSet(episodes, [key |-> episode_number, script |-> script,
                       critique |-> critique])

\* get_episode_data: self.generated_episodes.get(episode_number, None)
Absent == [present |-> FALSE, script |-> <<>>,
           critique |-> [is_pair |-> FALSE, script |-> <<>>, text |-> ""]]

GetEpisodeData(episodes, episode_number) ==
    IF HasKey(episodes, episode_number)
    THEN [present |-> TRUE,
          script |-> DictGet(episodes, episode_number).script,
          critique |-> DictGet(episodes, episode_number).critique]
    ELSE Absent

\* the steps of generate_episode in the order of pipeline.py:69-100
StepOrder == <<"context", "scenes", "critique", "extraction", "episode_map">>

\* the number of history entries held by a store
EntriesOf(m) ==
    SumLen(m.characters, "state_history")
        + SumLen(m.plot_points, "status_history")

\* a critique placed after update_memory_from_script would read the store
\* that the extraction has already changed
StoreReadByCritiqueLate(before, after) == after

\* critique_episode (pipeline.py:88) calls get_context_summary on the store
\* before update_memory_from_script (pipeline.py:91) has touched it
StoreReadByCritique(before, after) == before

NoBundle == [context_summary |-> EmptyContext, character_info |-> <<>>,
             relevant_chunks |-> <<>>]

NoRun ==
    [op |-> "init", n |-> 0, ok |-> FALSE, has_script |-> FALSE,
     script |-> <<>>,
     critique |-> [is_pair |-> FALSE, script |-> <<>>, text |-> ""],
     bundle |-> NoBundle,
     generated |-> FALSE, service_failed |-> FALSE,
     critique_called |-> FALSE, critique_failed |-> FALSE,
     extraction |-> "none", raised |-> FALSE,
     planner |-> "not_called", planned |-> FALSE,
     steps |-> <<>>, critique_read |-> 0, answer |-> [kind |-> "none"],
     index_up |-> TRUE, reinit_ok |-> TRUE,
     add_chunks_called |-> FALSE, add_chunks_ok |-> FALSE, chunks |-> <<>>,
     found |-> <<>>, data |-> Absent]

-----------------------------------------------------------------------------
(* The store as a state machine: one MemoryManager instance at a time over  *)
(* one location, mutated, read, and replaced by a fresh instance (Restart). *)

NoOp == [op |-> "init", n |-> 0, retId |-> 0, retOk |-> TRUE, saved |-> FALSE,
         context |-> EmptyContext, new_ids |-> <<>>, raised |-> FALSE,
         extraction |-> [kind |-> "none"]]

InitStore ==
    /\ characters = <<>>
    /\ plot_points = <<>>
    /\ plot_counter = 0
    /\ disk = EmptyDisk
    /\ last = NoOp
    /\ addCalls = 0
    /\ emptyStart = TRUE
    /\ saveFailures = 0

InitAll ==
    /\ InitStore
    /\ gen = GenStart
    /\ calls = <<>>
    /\ story_plan = NoPlan
    /\ generated_episodes = <<>>
    /\ vector_store = [up |-> TRUE, docs |-> <<>>]
    /\ run = NoRun
    /\ pipelineCalls = 0
    /\ persistLog = <<>>
    /\ stories = [s \in {"a", "b"} |-> [created |-> FALSE, characters |-> <<>>,
                                        plot_points |-> <<>>,
                                        plot_counter |-> 0]]
    /\ threads = [t \in {"t1", "t2"} |->
                     [pc |-> "idle", name |-> "", summary |-> "", ep |-> 0,
                      counter |-> 0, plot_id |-> 0, ids |-> <<>>,
                      updates |-> 0]]

StoreUpdateCharacterState ==
    /\ TotalEntries < MaxEntries
    /\ \E name \in Names, change \in Changes, ep \in Episodes,
          written \in SaveOutcomes :
        LET chars == UpdateCharacterState(characters, name, change, ep) IN
        /\ characters' = MemoryAfterSave(characters, chars, written)
        /\ disk' = SavePersistentData(disk, chars, plot_points, plot_counter,
                                      written)
        /\ last' = [NoOp EXCEPT !.op = "update_character_state", !.n = ep,
                                !.saved = (written = 3)]
        /\ saveFailures' = saveFailures + Failed(written)
    /\ UNCHANGED <<plot_points, plot_counter, addCalls, emptyStart>>

StoreAddPlotPoint ==
    /\ TotalEntries < MaxEntries
    /\ \E summary \in Summaries, ep \in Episodes, written \in SaveOutcomes :
        LET plot_id == NextPlotId(plot_counter)
            plots == AddPlotPoint(plot_points, plot_id, summary, DefaultStatus,
                                  ep)
        IN
        /\ plot_counter' = MemoryAfterSave(plot_counter, plot_id, written)
        /\ plot_points' = MemoryAfterSave(plot_points, plots, written)
        /\ disk' = SavePersistentData(disk, characters, plots, plot_id, written)
        /\ last' = [NoOp EXCEPT !.op = "add_plot_point", !.retId = plot_id,
                                !.saved = (written = 3)]
        /\ saveFailures' = saveFailures + Failed(written)
    /\ addCalls' = addCalls + 1
    /\ UNCHANGED <<characters, emptyStart>>

StoreUpdatePlotStatus ==
    /\ TotalEntries < MaxEntries
    /\ \E plot_id \in (1..MaxEntries) \cup {UnknownId}, status \in Statuses,
          ep \in Episodes, written \in SaveOutcomes :
        IF ~HasKey(plot_points, Str(plot_id))
        THEN /\ last' = [NoOp EXCEPT !.op = "update_plot_status",
                                     !.n = plot_id, !.retOk = FALSE]
             /\ UNCHANGED <<plot_points, disk, saveFailures>>
        ELSE LET plots == UpdatePlotStatus(plot_points, plot_id, status, ep) IN
             /\ plot_points' = MemoryAfterSave(plot_points, plots, written)
             /\ disk' = SavePersistentData(disk, characters, plots,
                                           plot_counter, written)
             /\ last' = [NoOp EXCEPT !.op = "update_plot_status",
                                     !.n = plot_id, !.saved = (written = 3)]
             /\ saveFailures' = saveFailures + Failed(written)
    /\ UNCHANGED <<characters, plot_counter, addCalls, emptyStart>>

StoreGetContextSummary ==
    /\ \E n \in Targets :
        last' = [NoOp EXCEPT !.op = "get_context_summary", !.n = n,
                             !.context =
                                GetContextSummary(characters, plot_points, n)]
    /\ UNCHANGED <<characters, plot_points, plot_counter, disk,
                   addCalls, emptyStart, saveFailures>>

\* a fresh MemoryManager is constructed on the same db_path
Restart ==
    /\ LET m == LoadPersistentData(disk) IN
        /\ characters' = m.characters
        /\ plot_points' = m.plot_points
        /\ plot_counter' = m.plot_counter
    /\ emptyStart' = (~disk.hasChars /\ ~disk.hasPlots /\ ~disk.hasCounter)
    /\ addCalls' = 0
    /\ last' = [NoOp EXCEPT !.op = "restart"]
    /\ UNCHANGED <<disk, saveFailures>>

NextStore ==
    /\ \/ StoreUpdateCharacterState
       \/ StoreAddPlotPoint
       \/ StoreUpdatePlotStatus
       \/ StoreGetContextSummary
       \/ Restart
    /\ UNCHANGED <<genVars, pipeVars, stories, threads>>

SpecStore == InitAll /\ [][NextStore]_vars

\* an existing file of the location is damaged from outside the process
\* (truncated, overwritten with text that is not JSON)
Exists(d, k) ==
    IF k = CharsFile THEN d.hasChars
    ELSE IF k = PlotsFile THEN d.hasPlots
    ELSE d.hasCounter

DamageFile ==
    /\ disk.bad = {}
    /\ \E k \in {CharsFile, PlotsFile, CounterFile} :
        /\ Exists(disk, k)
        /\ disk' = [disk EXCEPT !.bad = {k}]
        /\ last' = [NoOp EXCEPT !.op = "damage", !.n = k]
    /\ UNCHANGED <<characters, plot_points, plot_counter,
                   addCalls, emptyStart, saveFailures>>

NextDamaged ==
    /\ \/ StoreUpdateCharacterState
       \/ StoreAddPlotPoint
       \/ Restart
       \/ DamageFile
    /\ UNCHANGED <<genVars, pipeVars, stories, threads>>

SpecDamaged == InitAll /\ [][NextDamaged]_vars

-----------------------------------------------------------------------------
(* The scene loop as a state machine: one run of generate_episode_script,  *)
(* one step per iteration.                                                 *)

InitGen == InitAll

\* the loop calls the generation service and takes its answer
GenScene ==
    /\ gen.pc = "loop"
    /\ LoopCondition(gen)
    /\ Len(calls) < MaxTrace
    /\ \E response \in Responses :
        /\ gen' = LoopBody(gen, response)
        /\ calls' = Append(calls, ServiceCall(gen, response))
    /\ UNCHANGED <<storeVars, pipeVars, stories, threads>>

\* the loop condition fails and the script is returned
GenReturn ==
    /\ gen.pc = "loop"
    /\ ~LoopCondition(gen)
    /\ gen' = [gen EXCEPT !.pc = "done"]
    /\ UNCHANGED <<calls, storeVars, pipeVars, stories, threads>>

NextGen == GenScene \/ GenReturn

SpecGen == InitGen /\ [][NextGen]_vars

\* every call of the generation service returns or raises, and the loop
\* goes on when it does
SpecGenFair == SpecGen /\ WF_vars(NextGen)

-----------------------------------------------------------------------------
(* The pipeline as a state machine: one StoryPipeline, called by its host  *)
(* one call at a time; each action is one call run to its return.          *)

InitPipe ==
    /\ InitStore
    /\ gen = GenStart
    /\ calls = <<>>
    /\ story_plan = NoPlan
    /\ generated_episodes = <<>>
    /\ vector_store \in {[up |-> u, docs |-> <<>>] : u \in BOOLEAN}
    /\ run = NoRun
    /\ pipelineCalls = 0
    /\ persistLog = <<>>
    /\ stories = [s \in {"a", "b"} |-> [created |-> FALSE, characters |-> <<>>,
                                        plot_points |-> <<>>,
                                        plot_counter |-> 0]]
    /\ threads = [t \in {"t1", "t2"} |->
                     [pc |-> "idle", name |-> "", summary |-> "", ep |-> 0,
                      counter |-> 0, plot_id |-> 0, ids |-> <<>>,
                      updates |-> 0]]

\* a critique as generate_episode returns and stores it: the value of
\* critique_episode (a pair), or a message of the pipeline itself
CritiquePair(pair) == [is_pair |-> TRUE, script |-> pair[1], text |-> pair[2]]

CritiqueMessage(text) == [is_pair |-> FALSE, script |-> <<>>, text |-> text]

Overview == <<"STORY TITLE", "PREMISE", "SETTING">>

PlanStory ==
    /\ pipelineCalls < MaxPipelineCalls
    /\ pipelineCalls' = pipelineCalls + 1
    /\ \E user_input \in {"", "idea"}, outcome \in PlannerOutcomes :
        IF user_input = ""
        THEN /\ run' = [NoRun EXCEPT !.op = "plan_story"]
             /\ UNCHANGED <<story_plan, characters, plot_points, plot_counter,
                            disk, addCalls, vector_store>>
        ELSE LET plan == GenerateInitialPlan(outcome) IN
             /\ story_plan' = plan
             /\ IF plan = NoPlan
                THEN /\ run' = [NoRun EXCEPT !.op = "plan_story",
                                              !.planner = outcome]
                     /\ UNCHANGED <<characters, plot_points, plot_counter,
                                    disk, addCalls, vector_store>>
                ELSE LET m == StorePlan(Memory(characters, plot_points,
                                               plot_counter), plan)
                     IN
                     /\ characters' = m.characters
                     /\ plot_points' = m.plot_points
                     /\ plot_counter' = m.plot_counter
                     /\ addCalls' = addCalls + (m.plot_counter - plot_counter)
                     /\ disk' = IF m.saved
                                THEN SavePersistentData(disk, m.characters,
                                        m.plot_points, m.plot_counter, 3)
                                ELSE disk
                     /\ vector_store' = AddDocumentChunks(vector_store, Overview,
                                                          "story_overview", 0)
                     /\ run' = [NoRun EXCEPT !.op = "plan_story", !.ok = TRUE,
                                              !.planner = outcome,
                                              !.planned = TRUE,
                                              !.index_up = vector_store.up]
    /\ UNCHANGED <<generated_episodes, last, emptyStart, saveFailures, genVars,
                   persistLog>>

GenerateEpisode ==
    /\ pipelineCalls < MaxPipelineCalls
    /\ pipelineCalls' = pipelineCalls + 1
    /\ \E episode_number \in EpisodeArgs :
        IF story_plan = NoPlan \/ ~InPlan(story_plan, episode_number)
        THEN /\ run' = [NoRun EXCEPT
                            !.op = "generate_episode", !.n = episode_number,
                            !.critique = CritiqueMessage(
                                IF story_plan = NoPlan
                                THEN "No story plan exists."
                                ELSE "Episode not found in story plan.")]
             /\ UNCHANGED <<characters, plot_points, plot_counter, disk,
                            addCalls, vector_store, generated_episodes, genVars,
                            persistLog>>
        ELSE
        \E responses \in GenerationBehaviours, critique_outcome \in CritiqueOutcomes,
           extraction \in ExtractionOutcomes,
           reinit_ok \in (IF vector_store.up THEN {TRUE} ELSE BOOLEAN),
           found \in SimilaritySearch(vector_store.docs, 5) :
        LET bundle == [context_summary |->
                           GetContextSummary(characters, plot_points,
                                             episode_number),
                       character_info |-> GetCharacterSummaries(characters),
                       relevant_chunks |-> GetRelevantChunks(vector_store, found)]
            r == RunScenes(GenStart, responses, <<>>, FALSE)
            script == ScriptOf(r.gen)
            started == [NoRun EXCEPT
                            !.op = "generate_episode", !.n = episode_number,
                            !.generated = TRUE, !.bundle = bundle,
                            !.has_script = TRUE, !.script = script,
                            !.steps = SubSeq(StepOrder, 1, 2),
                            !.service_failed = r.service_failed,
                            !.index_up = vector_store.up,
                            !.reinit_ok = reinit_ok]
        IN
        /\ gen' = r.gen
        /\ calls' = r.calls
        /\ IF GenerationFailed(script)
           THEN /\ run' = [started EXCEPT
                            !.critique = CritiqueMessage(GenerationFailedCritique)]
                /\ UNCHANGED <<characters, plot_points, plot_counter, disk,
                               addCalls, vector_store, generated_episodes,
                               persistLog>>
           ELSE
           LET critique == CritiquePair(CritiqueEpisode(script, critique_outcome))
               m == ApplyExtraction(Memory(characters, plot_points, plot_counter),
                                    extraction, episode_number)
               called == [started EXCEPT
                            !.steps = SubSeq(StepOrder, 1, 4),
                            !.critique_read =
                                EntriesOf(StoreReadByCritique(
                                    Memory(characters, plot_points,
                                           plot_counter), m)),
                            !.answer = extraction,
                            !.critique_called = TRUE,
                            !.critique_failed = ~critique_outcome.ok,
                            !.extraction = ExtractionKind(extraction)]
           IN
           /\ characters' = m.characters
           /\ plot_points' = m.plot_points
           /\ plot_counter' = m.plot_counter
           /\ addCalls' = addCalls + (m.plot_counter - plot_counter)
           /\ disk' = IF m.saved
                      THEN SavePersistentData(disk, m.characters, m.plot_points,
                                              m.plot_counter, 3)
                      ELSE disk
           /\ IF m.raised
              THEN \* the AttributeError leaves update_memory_from_script
                   \* and generate_episode
                   /\ run' = [called EXCEPT
                                !.has_script = FALSE, !.script = <<>>,
                                !.raised = TRUE]
                   /\ UNCHANGED <<vector_store, generated_episodes,
                                  persistLog>>
              ELSE /\ vector_store' =
                        AddChunksToVectorStore(vector_store, SplitText(script),
                                               episode_number, reinit_ok)
                   /\ generated_episodes' =
                        StoreEpisode(generated_episodes, episode_number,
                                     script, critique)
                   /\ persistLog' =
                        Append(persistLog,
                               [n |-> episode_number, script |-> script,
                                critique |-> critique])
                   /\ run' = [called EXCEPT
                                !.steps = StepOrder,
                                !.critique = critique,
                                !.add_chunks_called = TRUE,
                                !.add_chunks_ok =
                                    AddChunksResult(vector_store,
                                                    SplitText(script), reinit_ok),
                                !.chunks = SplitText(script)]
    /\ UNCHANGED <<story_plan, last, emptyStart, saveFailures>>

\* search_similar(query, limit) on the pipeline's MemoryManager
SearchSimilarCall ==
    /\ pipelineCalls < MaxPipelineCalls
    /\ pipelineCalls' = pipelineCalls + 1
    /\ \E limit \in SearchLimits, search_ok \in BOOLEAN :
        \E found \in SimilaritySearch(vector_store.docs, limit) :
            run' = [NoRun EXCEPT !.op = "search_similar",
                                 !.index_up = vector_store.up,
                                 !.found = SearchSimilar(vector_store, found,
                                                         search_ok)]
    /\ UNCHANGED <<storeVars, genVars, story_plan, generated_episodes,
                   vector_store, persistLog>>

\* get_episode_data(episode_number)
GetEpisodeDataCall ==
    /\ pipelineCalls < MaxPipelineCalls
    /\ pipelineCalls' = pipelineCalls + 1
    /\ \E episode_number \in EpisodeArgs :
        run' = [NoRun EXCEPT !.op = "get_episode_data", !.n = episode_number,
                             !.data = GetEpisodeData(generated_episodes,
                                                     episode_number)]
    /\ UNCHANGED <<storeVars, genVars, story_plan, generated_episodes,
                   vector_store, persistLog>>

NextPipe ==
    /\ \/ PlanStory
       \/ GenerateEpisode
       \/ SearchSimilarCall
       \/ GetEpisodeDataCall
    /\ UNCHANGED <<stories, threads>>

SpecPipe == InitPipe /\ [][NextPipe]_vars

-----------------------------------------------------------------------------
(* Two stories side by side: each StoryPipeline() builds its own            *)
(* MemoryManager (pipeline.py:23), and both managers are called in any      *)
(* order, one call at a time.                                               *)

StoryIds == {"a", "b"}

\* db_path="memory/db" (memory_manager.py:15)
DefaultDbPath == "memory/db"

\* MemoryManager(api_key=self.api_key): no db_path is passed
DbPath(story) == DefaultDbPath

\* the files under a location
FilesAt(path) == IF path = DefaultDbPath THEN disk ELSE EmptyDisk

NoStory == [created |-> FALSE, characters |-> <<>>, plot_points |-> <<>>,
            plot_counter |-> 0]

StoryEntries(m) ==
    SumLen(m.characters, "state_history") + SumLen(m.plot_points, "status_history")

\* StoryPipeline(): MemoryManager.__init__ loads what the location holds
CreateStory(s) ==
    /\ ~stories[s].created
    /\ LET m == LoadPersistentData(FilesAt(DbPath(s))) IN
        stories' = [stories EXCEPT ![s] =
                        [created |-> TRUE, characters |-> m.characters,
                         plot_points |-> m.plot_points,
                         plot_counter |-> m.plot_counter]]
    /\ UNCHANGED <<storeVars, genVars, pipeVars, threads>>

StoryUpdateCharacterState(s) ==
    /\ stories[s].created
    /\ StoryEntries(stories[s]) < MaxEntries
    /\ \E name \in {"Ann"}, change \in Changes, ep \in Episodes :
        LET chars == UpdateCharacterState(stories[s].characters, name, change,
                                          ep)
        IN
        /\ stories' = [stories EXCEPT ![s].characters = chars]
        /\ disk' = SavePersistentData(FilesAt(DbPath(s)), chars,
                                      stories[s].plot_points,
                                      stories[s].plot_counter, 3)
    /\ UNCHANGED <<characters, plot_points, plot_counter, last, addCalls,
                   emptyStart, saveFailures, genVars, pipeVars, threads>>

StoryAddPlotPoint(s) ==
    /\ stories[s].created
    /\ StoryEntries(stories[s]) < MaxEntries
    /\ \E summary \in Summaries, ep \in Episodes :
        LET plot_id == NextPlotId(stories[s].plot_counter)
            plots == AddPlotPoint(stories[s].plot_points, plot_id, summary,
                                  DefaultStatus, ep)
        IN
        /\ stories' = [stories EXCEPT ![s].plot_points = plots,
                                      ![s].plot_counter = plot_id]
        /\ disk' = SavePersistentData(FilesAt(DbPath(s)),
                                      stories[s].characters, plots, plot_id, 3)
    /\ UNCHANGED <<characters, plot_points, plot_counter, last, addCalls,
                   emptyStart, saveFailures, genVars, pipeVars, threads>>

NextTwo ==
    \E s \in StoryIds :
        \/ CreateStory(s)
        \/ StoryUpdateCharacterState(s)
        \/ StoryAddPlotPoint(s)

SpecTwo == InitAll /\ [][NextTwo]_vars

-----------------------------------------------------------------------------
(* The extraction's updates on a store that an earlier process has left    *)
(* behind: add_plot_point calls whose save may fail, a fresh MemoryManager *)
(* on the same location, and step 3 of update_memory_from_script.          *)

\* refiner.py:126-145 applied to the MemoryManager; every save succeeds
UpdateMemoryFromScript ==
    /\ TotalEntries < MaxEntries
    /\ \E extraction \in ExtractionOutcomes, episode_number \in Episodes :
        LET m == ApplyExtraction(Memory(characters, plot_points, plot_counter),
                                 extraction, episode_number)
        IN
        /\ characters' = m.characters
        /\ plot_points' = m.plot_points
        /\ plot_counter' = m.plot_counter
        /\ addCalls' = addCalls + Len(m.new_ids)
        /\ disk' = IF m.saved
                   THEN SavePersistentData(disk, m.characters, m.plot_points,
                                           m.plot_counter, 3)
                   ELSE disk
        /\ last' = [NoOp EXCEPT !.op = "update_memory_from_script",
                                !.n = episode_number, !.saved = m.saved,
                                !.new_ids = m.new_ids, !.raised = m.raised,
                                !.extraction = extraction]
    /\ UNCHANGED <<emptyStart, saveFailures>>

NextExtract ==
    /\ \/ StoreAddPlotPoint
       \/ Restart
       \/ UpdateMemoryFromScript
    /\ UNCHANGED <<genVars, pipeVars, stories, threads>>

SpecExtract == InitAll /\ [][NextExtract]_vars

-----------------------------------------------------------------------------
(* The index of one MemoryManager: add_chunks_to_vector_store called with  *)
(* lists of chunks, on a vector store that the constructor did or did not  *)
(* bring up.                                                               *)

MaxDocs == 3

\* chunks as the text splitter or a caller may hand them over: empty,
\* whitespace only, or with text
ChunkTexts == {<<>>, <<" ">>, <<"a">>, <<" ", "b">>}

ChunkLists ==
    {<<>>} \cup {<<c>> : c \in ChunkTexts}
        \cup {<<c, d>> : c \in ChunkTexts, d \in ChunkTexts}
        \cup {<<c, d, e>> : c \in ChunkTexts, d \in {<<" ">>, <<"a">>},
                            e \in {<<>>, <<" ", "b">>}}

InitIndex == InitPipe

\* add_chunks_to_vector_store(chunks, episode_number)
IndexAddChunks ==
    /\ Len(vector_store.docs) < MaxDocs
    /\ \E chunks \in ChunkLists, episode_number \in Episodes,
          reinit_ok \in (IF vector_store.up THEN {TRUE} ELSE BOOLEAN) :
        /\ vector_store' = AddChunksToVectorStore(vector_store, chunks,
                                                  episode_number, reinit_ok)
        /\ run' = [NoRun EXCEPT
                        !.op = "add_chunks_to_vector_store",
                        !.n = episode_number,
                        !.index_up = vector_store.up,
                        !.reinit_ok = reinit_ok,
                        !.add_chunks_called = TRUE,
                        !.add_chunks_ok =
                            AddChunksResult(vector_store, chunks, reinit_ok),
                        !.chunks = chunks]
    /\ UNCHANGED <<storeVars, genVars, story_plan, generated_episodes,
                   pipelineCalls, persistLog, stories, threads>>

\* search_similar(query, limit) between the writes
IndexSearch ==
    /\ run.op /= "search_similar"
    /\ \E search_ok \in BOOLEAN :
        \E found \in SimilaritySearch(vector_store.docs, 1) :
            run' = [NoRun EXCEPT !.op = "search_similar",
                                 !.index_up = vector_store.up,
                                 !.found = SearchSimilar(vector_store, found,
                                                         search_ok)]
    /\ UNCHANGED <<storeVars, genVars, story_plan, generated_episodes,
                   vector_store, pipelineCalls, persistLog, stories, threads>>

NextIndex == IndexAddChunks \/ IndexSearch

SpecIndex == InitIndex /\ [][NextIndex]_vars

-----------------------------------------------------------------------------
(* Two threads calling add_plot_point and update_character_state on one    *)
(* MemoryManager. The methods take no lock, so a thread may be suspended   *)
(* between any two statements, and between the read and the write of       *)
(* "self.plot_counter += 1"; each action is one such step of one thread.   *)

ThreadIds == {"t1", "t2"}

\* the calls under way
Pending == Cardinality({t \in ThreadIds : threads[t].pc /= "idle"})

\* a thread enters add_plot_point(summary, episode_added=ep)
CallAddPlotPoint(t) ==
    /\ threads[t].pc = "idle"
    /\ TotalEntries + Pending < MaxEntries
    /\ \E summary \in Summaries, ep \in Episodes :
        threads' = [threads EXCEPT ![t].pc = "add_load",
                                   ![t].summary = summary, ![t].ep = ep]
    /\ UNCHANGED <<storeVars, genVars, pipeVars, stories>>

\* self.plot_counter += 1: the read of the attribute
AddLoadCounter(t) ==
    /\ threads[t].pc = "add_load"
    /\ threads' = [threads EXCEPT ![t].pc = "add_store",
                                  ![t].counter = plot_counter]
    /\ UNCHANGED <<storeVars, genVars, pipeVars, stories>>

\* self.plot_counter += 1: the write of the attribute
AddStoreCounter(t) ==
    /\ threads[t].pc = "add_store"
    /\ plot_counter' = NextPlotId(threads[t].counter)
    /\ threads' = [threads EXCEPT ![t].pc = "add_read"]
    /\ UNCHANGED <<characters, plot_points, disk, last, addCalls, emptyStart,
                   saveFailures, genVars, pipeVars, stories>>

\* plot_id = self.plot_counter
AddReadId(t) ==
    /\ threads[t].pc = "add_read"
    /\ threads' = [threads EXCEPT ![t].pc = "add_insert",
                                  ![t].plot_id = plot_counter]
    /\ UNCHANGED <<storeVars, genVars, pipeVars, stories>>

\* self.plot_points[str(plot_id)] = {...}
AddInsert(t) ==
    /\ threads[t].pc = "add_insert"
    /\ plot_points' = AddPlotPoint(plot_points, threads[t].plot_id,
                                   threads[t].summary, DefaultStatus,
                                   threads[t].ep)
    /\ threads' = [threads EXCEPT ![t].pc = "add_save"]
    /\ UNCHANGED <<characters, plot_counter, disk, last, addCalls, emptyStart,
                   saveFailures, genVars, pipeVars, stories>>

\* self._save_persistent_data(); return plot_id
AddSaveReturn(t) ==
    /\ threads[t].pc = "add_save"
    /\ disk' = SavePersistentData(disk, characters, plot_points, plot_counter, 3)
    /\ threads' = [threads EXCEPT ![t].pc = "idle",
                                  ![t].ids = Append(@, threads[t].plot_id)]
    /\ UNCHANGED <<characters, plot_points, plot_counter, last, addCalls,
                   emptyStart, saveFailures, genVars, pipeVars, stories>>

\* a thread enters update_character_state(name, change, ep) and tests
\* "character_name not in self.characters"
CallUpdateCharacterState(t) ==
    /\ threads[t].pc = "idle"
    /\ TotalEntries + Pending < MaxEntries
    /\ \E name \in Names, ep \in Episodes :
        threads' = [threads EXCEPT
                        ![t].pc = IF HasKey(characters, name)
                                  THEN "upd_append" ELSE "upd_create",
                        ![t].name = name, ![t].ep = ep]
    /\ UNCHANGED <<storeVars, genVars, pipeVars, stories>>

\* self.characters[character_name] = {..., "state_history": []}
UpdCreate(t) ==
    /\ threads[t].pc = "upd_create"
    /\ characters' = DictSet(characters,
                             [key |-> threads[t].name, name |-> threads[t].name,
                              first_appearance |-> threads[t].ep,
                              state_history |-> <<>>])
    /\ threads' = [threads EXCEPT ![t].pc = "upd_append"]
    /\ UNCHANGED <<plot_points, plot_counter, disk, last, addCalls, emptyStart,
                   saveFailures, genVars, pipeVars, stories>>

\* self.characters[character_name]["state_history"].append({...})
UpdAppend(t) ==
    /\ threads[t].pc = "upd_append"
    /\ characters' =
          [characters EXCEPT
              ![IndexOfKey(characters, threads[t].name)].state_history =
                  Append(@, [episode |-> threads[t].ep, change |-> "c"])]
    /\ threads' = [threads EXCEPT ![t].pc = "upd_save"]
    /\ UNCHANGED <<plot_points, plot_counter, disk, last, addCalls, emptyStart,
                   saveFailures, genVars, pipeVars, stories>>

\* self._save_persistent_data(), and the call returns
UpdSaveReturn(t) ==
    /\ threads[t].pc = "upd_save"
    /\ disk' = SavePersistentData(disk, characters, plot_points, plot_counter, 3)
    /\ threads' = [threads EXCEPT ![t].pc = "idle",
                                  ![t].updates = @ + 1]
    /\ UNCHANGED <<characters, plot_points, plot_counter, last, addCalls,
                   emptyStart, saveFailures, genVars, pipeVars, stories>>

NextThreads ==
    \E t \in ThreadIds :
        \/ CallAddPlotPoint(t)
        \/ AddLoadCounter(t)
        \/ AddStoreCounter(t)
        \/ AddReadId(t)
        \/ AddInsert(t)
        \/ AddSaveReturn(t)
        \/ CallUpdateCharacterState(t)
        \/ UpdCreate(t)
        \/ UpdAppend(t)
        \/ UpdSaveReturn(t)

SpecThreads == InitAll /\ [][NextThreads]_vars

-----------------------------------------------------------------------------
(* Properties of the store *)

StoreOps == {"update_character_state", "add_plot_point", "update_plot_status",
             "get_context_summary"}

AllEntries(lines) ==
    UNION {{lines[i].entries[j] : j \in DOMAIN lines[i].entries} :
           i \in DOMAIN lines}

\* C2: get_context_summary(N) renders no character-history entry and no
\* plot-status entry whose recorded episode is >= N, whatever the order in
\* which the entries were recorded.
C2_ContextHasNoFuture ==
    last.op = "get_context_summary" =>
        /\ \A e \in AllEntries(last.context.characters) : e.episode < last.n
        /\ \A e \in AllEntries(last.context.plots) : e.episode < last.n

\* a summary that shows a character and a plot point while the store holds
\* entries of both recorded at or after the target episode, one of them
\* recorded before an earlier-dated one
C2_Witness ==
    /\ last.op = "get_context_summary"
    /\ last.context.characters /= <<>>
    /\ \E i \in DOMAIN characters :
         LET h == characters[i].state_history IN
         \E j, k \in DOMAIN h :
            j < k /\ h[j].episode >= last.n /\ h[k].episode < last.n

\* C3: on a store started over an empty location the k-th add_plot_point
\* call returns k, whatever other store operations are interleaved.
C3_KthAddReturnsK ==
    (emptyStart /\ last.op = "add_plot_point") => last.retId = addCalls

\* the second add_plot_point of an instance started over an empty location
C3_Witness ==
    /\ emptyStart
    /\ last.op = "add_plot_point"
    /\ addCalls = 2
    /\ Len(characters) > 0

\* C4: over a story's lifetime (mutations, failing saves, restarts)
\* add_plot_point never returns an id that already keys a plot point of the
\* table, so that no plot point is overwritten, and the id it returns is
\* greater than the id of every plot point assigned before.
C4_IdsNeverReused ==
    [][last'.op = "add_plot_point" =>
        /\ ~HasKey(plot_points, Str(last'.retId))
        /\ \A i \in DOMAIN plot_points : last'.retId > plot_points[i].id]_vars

\* C5: every store operation leaves each state_history and status_history a
\* prefix of what it is afterwards, and removes no character or plot point.
C5_HistoriesAppendOnly ==
    [][last'.op \in StoreOps =>
        /\ \A i \in DOMAIN characters :
             /\ HasKey(characters', characters[i].key)
             /\ IsPrefix(characters[i].state_history,
                         DictGet(characters', characters[i].key).state_history)
        /\ \A i \in DOMAIN plot_points :
             /\ HasKey(plot_points', plot_points[i].key)
             /\ IsPrefix(plot_points[i].status_history,
                         DictGet(plot_points', plot_points[i].key).status_history)
      ]_vars

\* C8: after a successful save a fresh MemoryManager constructed on the same
\* location holds a character table, plot table and plot counter equal to
\* the original's.
C8_RoundTrip ==
    last.saved =>
        LoadPersistentData(disk) =
            [characters |-> characters, plot_points |-> plot_points,
             plot_counter |-> plot_counter]

-----------------------------------------------------------------------------
(* Properties of the scene loop *)

\* C6: in any run of generate_episode_script the generation service is
\* invoked at most MAX_SCENES_PER_EPISODE times, for the consecutive scene
\* numbers 1..k, whatever it answers.
C6_AtMostCapCalls ==
    /\ Len(calls) <= MAX_SCENES_PER_EPISODE
    /\ \A i \in DOMAIN calls : calls[i].scene = i

\* a finished run in which the service was asked for all ten scenes
C6_Witness ==
    /\ gen.pc = "done"
    /\ Len(calls) = MAX_SCENES_PER_EPISODE

\* C7: generate_episode_script terminates when every service call returns
\* or raises, also when no scene carries the end-of-episode marker.
C7_Terminates == <>(gen.pc = "done")

\* a finished run none of whose scenes ended with the marker
C7_Witness ==
    /\ gen.pc = "done"
    /\ Len(gen.full_episode_script) = MAX_SCENES_PER_EPISODE + 1
    /\ \A i \in 1..MAX_SCENES_PER_EPISODE :
          ~EndsWith(gen.full_episode_script[i], EndMarker)

-----------------------------------------------------------------------------
(* Properties of the pipeline *)

\* C1: in every generate_episode(N) none of the three parts of the context
\* bundle handed to scene generation (context_summary, character_info,
\* relevant_chunks) holds a character-history entry, plot-status entry or
\* script chunk tagged with an episode >= N.
C1_BundleHasNoFuture ==
    (run.op = "generate_episode" /\ run.generated) =>
        /\ \A e \in AllEntries(run.bundle.context_summary.characters) :
              e.episode < run.n
        /\ \A e \in AllEntries(run.bundle.context_summary.plots) :
              e.episode < run.n
        /\ \A e \in AllEntries(run.bundle.character_info) : e.episode < run.n
        /\ \A i \in DOMAIN run.bundle.relevant_chunks :
              run.bundle.relevant_chunks[i].episode < run.n

\* C9: when a scene generation call fails during generate_episode(N) the
\* operation is aborted: no critique call, no extraction call, no change of
\* the ContinuityStore, the SemanticIndex or the episode map, and the caller
\* receives the failure result.
C9_SceneFailureAborts ==
    [][(run'.op = "generate_episode" /\ run'.service_failed) =>
        /\ ~run'.critique_called
        /\ run'.extraction = "none"
        /\ UNCHANGED <<characters, plot_points, plot_counter, vector_store,
                       generated_episodes>>
        /\ run'.critique = CritiqueMessage(GenerationFailedCritique)]_vars

\* C10: if the extraction call raises or its answer is not the expected
\* structure, no character or plot update is applied, generate_episode does
\* not raise, and the episode is stored with its script and critique.
C10_BadExtractionIsNoUpdate ==
    [][(run'.op = "generate_episode"
            /\ run'.extraction \in {"raises", "invalid_json", "wrong_shape"}) =>
        /\ UNCHANGED <<characters, plot_points, plot_counter>>
        /\ ~run'.raised
        /\ HasKey(generated_episodes', run'.n)
        /\ DictGet(generated_episodes', run'.n).script = run'.script
        /\ DictGet(generated_episodes', run'.n).critique = run'.critique]_vars

\* C11: every generate_episode run that reaches the extraction step calls
\* add_chunks_to_vector_store with all chunks of the script, whether the
\* extraction call raised, its answer did not parse, or applying its updates
\* failed.
C11_IndexWriteAlways ==
    (run.op = "generate_episode" /\ run.extraction /= "none") =>
        /\ run.add_chunks_called
        /\ run.chunks = SplitText(ScriptOf(gen))

\* C12: when the critique service call fails, generate_episode(N) does not
\* raise, still returns the script, still runs the extraction step, and
\* stores an entry for N whose critique field is the failure marker.
C12_CritiqueFailureDegrades ==
    (run.op = "generate_episode" /\ run.critique_failed) =>
        /\ ~run.raised
        /\ run.has_script
        /\ run.script = ScriptOf(gen)
        /\ run.extraction /= "none"
        /\ HasKey(generated_episodes, run.n)
        /\ DictGet(generated_episodes, run.n).critique =
              CritiqueMessage(CritiqueFailedMarker)

\* C13: with the index unavailable and its re-provisioning failing,
\* search_similar returns an empty result, add_chunks_to_vector_store returns
\* False and the index stays unavailable, neither raises, plan_story returns
\* success when the planner delivers a plan, and a generate_episode that
\* reaches the index write returns its script and critique and stores the
\* episode.
C13_IndexDownDegrades ==
    /\ (run.op = "search_similar" /\ ~run.index_up) =>
            run.found = <<>> /\ ~run.raised
    /\ (run.op = "plan_story" /\ run.planned /\ ~run.index_up) =>
            run.ok /\ ~run.raised /\ ~vector_store.up
    /\ (run.op = "generate_episode" /\ run.generated /\ ~run.index_up) =>
            run.bundle.relevant_chunks = <<>>
    /\ (run.op = "generate_episode" /\ run.add_chunks_called
            /\ ~run.index_up /\ ~run.reinit_ok) =>
            /\ ~run.add_chunks_ok
            /\ ~vector_store.up
            /\ ~run.raised
            /\ run.has_script /\ run.script = ScriptOf(gen)
            /\ run.critique_called /\ run.critique.is_pair
            /\ HasKey(generated_episodes, run.n)
            /\ DictGet(generated_episodes, run.n) =
                  [key |-> run.n, script |-> run.script,
                   critique |-> run.critique]

\* an episode generated, critiqued and stored after a plan was stored, all
\* of it without the index
C13_Witness ==
    /\ run.op = "generate_episode"
    /\ ~run.index_up /\ ~run.reinit_ok
    /\ run.add_chunks_called /\ ~run.add_chunks_ok
    /\ ~run.service_failed /\ ~run.critique_failed
    /\ run.extraction = "json"
    /\ HasKey(generated_episodes, run.n)
    /\ Len(characters) > 0
    /\ ~vector_store.up

\* C14: when generate_episode(N) completes, every character its extraction
\* updated and every plot point it added is rendered by a
\* get_context_summary(M) issued afterwards for any M > N, together with the
\* entry recorded at N (it is then the latest entry dated before M).
C14_ExtractionVisibleLater ==
    [][(run'.op = "generate_episode" /\ run'.add_chunks_called) =>
        \A M \in Targets : M > run'.n =>
            LET context == GetContextSummary(characters', plot_points', M) IN
            /\ \A i \in DOMAIN characters' :
                  LET c == characters'[i] IN
                  (~HasKey(characters, c.key) \/ DictGet(characters, c.key) /= c)
                  => \E l \in DOMAIN context.characters :
                        /\ context.characters[l].name = c.key
                        /\ \E j \in DOMAIN context.characters[l].entries :
                              context.characters[l].entries[j].episode = run'.n
            /\ \A i \in DOMAIN plot_points' :
                  LET p == plot_points'[i] IN
                  ~HasKey(plot_points, p.key)
                  => \E l \in DOMAIN context.plots :
                        /\ context.plots[l].summary = p.summary
                        /\ context.plots[l].entries =
                              <<[episode |-> run'.n, status |-> DefaultStatus]>>
      ]_vars

\* the entry of the most recent generate_episode(n) that stored its results
RECURSIVE LastPersisted(_, _)
LastPersisted(log, n) ==
    IF log = <<>> THEN Absent
    ELSE IF log[Len(log)].n = n
         THEN [present |-> TRUE, script |-> log[Len(log)].script,
               critique |-> log[Len(log)].critique]
         ELSE LastPersisted(SubSeq(log, 1, Len(log) - 1), n)

\* C15: get_episode_data(n) is absent exactly when no generate_episode(n)
\* has stored its results, and otherwise is the script and critique of the
\* most recent one that did; generating n changes no other episode's entry.
C15_EpisodeMapIsLastRun ==
    /\ \A n \in EpisodeArgs :
          GetEpisodeData(generated_episodes, n) = LastPersisted(persistLog, n)
    /\ run.op = "get_episode_data" => run.data = LastPersisted(persistLog, run.n)

\* episode 1 generated and stored twice with different scripts, episode 2
\* never having been generated
C15_Witness ==
    /\ run.op = "generate_episode" /\ run.n = 1
    /\ Len(persistLog) = 2
    /\ persistLog[1].n = 1 /\ persistLog[2].n = 1
    /\ persistLog[1].script /= persistLog[2].script
    /\ GetEpisodeData(generated_episodes, 1).script = persistLog[2].script
    /\ GetEpisodeData(generated_episodes, 2) = Absent

\* C16: generate_episode(N) without a story plan, or with N absent from the
\* plan's master_outline, returns no script and a failure message, calls no
\* external service, and leaves the store, the index and the episode map
\* unchanged.
C16_UnknownEpisodeRejected ==
    [][(run'.op = "generate_episode"
            /\ \/ story_plan = NoPlan
               \/ \A i \in DOMAIN story_plan.master_outline :
                     story_plan.master_outline[i].episode /= run'.n) =>
        /\ ~run'.has_script /\ ~run'.raised
        /\ ~run'.critique.is_pair
        /\ run'.critique.text \in {"No story plan exists.",
                                   "Episode not found in story plan."}
        /\ ~run'.generated /\ ~run'.critique_called
        /\ run'.extraction = "none" /\ ~run'.add_chunks_called
        /\ UNCHANGED <<characters, plot_points, plot_counter, disk,
                       vector_store, generated_episodes, gen, calls,
                       story_plan>>]_vars

\* episode 3 asked of a plan of two episodes, after episode 1 was stored
C16_Witness ==
    /\ run.op = "generate_episode" /\ run.n = 3
    /\ story_plan /= NoPlan
    /\ run.critique.text = "Episode not found in story plan."
    /\ HasKey(generated_episodes, 1)
    /\ Len(plot_points) > 0

-----------------------------------------------------------------------------
(* Further properties of the store *)

\* C17: update_plot_status with an id that is not in the plot table returns
\* False and leaves the tables, the counter and the persisted files
\* unchanged; with a known id it appends (episode, new_status) to that plot
\* point's status_history, sets its status to new_status, and changes no
\* other plot point and no character.
C17_UpdatePlotStatus ==
    [][last'.op = "update_plot_status" =>
        IF ~HasKey(plot_points, Str(last'.n))
        THEN /\ ~last'.retOk
             /\ UNCHANGED <<characters, plot_points, plot_counter, disk>>
        ELSE /\ last'.retOk
             /\ UNCHANGED <<characters, plot_counter>>
             /\ Len(plot_points') = Len(plot_points)
             /\ \A i \in DOMAIN plot_points :
                   IF plot_points[i].key = Str(last'.n)
                   THEN \E s \in Statuses, e \in Episodes :
                          plot_points'[i] =
                            [plot_points[i] EXCEPT
                                !.status = s,
                                !.status_history =
                                    Append(@, [episode |-> e, status |-> s])]
                   ELSE plot_points'[i] = plot_points[i]]_vars

\* one of two plot points resolved, the other left as it was added
C17_Witness ==
    /\ last.op = "update_plot_status" /\ last.retOk
    /\ Len(plot_points) = 2
    /\ \E i, j \in DOMAIN plot_points :
          /\ plot_points[i].key = Str(last.n)
          /\ Len(plot_points[i].status_history) = 2
          /\ plot_points[i].status = "resolved"
          /\ j /= i /\ plot_points[j].status = DefaultStatus

StoreMutations == {"update_character_state", "add_plot_point",
                   "update_plot_status"}

\* C18: when the write of the files fails during a mutating store operation
\* the operation still returns and its change stays in memory:
\* add_plot_point returns the new id, and the new entry is shown by the
\* reads of the same instance (get_context_summary, get_character_summaries,
\* get_active_plot_points).
C18_FailedSaveKeepsMemory ==
    [][(last'.op \in StoreMutations /\ last'.retOk /\ ~last'.saved) =>
        /\ last'.op = "add_plot_point" =>
              /\ last'.retId = plot_counter + 1
              /\ plot_counter' = last'.retId
              /\ HasKey(plot_points', Str(last'.retId))
              /\ LET p == DictGet(plot_points', Str(last'.retId)) IN
                    /\ p.id = last'.retId
                    /\ p.status_history =
                          <<[episode |-> p.episode_added, status |-> p.status]>>
                    /\ \E i \in DOMAIN GetActivePlotPoints(plot_points') :
                          GetActivePlotPoints(plot_points')[i] = p
                    /\ \A M \in Targets : M > p.episode_added =>
                          \E l \in DOMAIN PlotSummary(plot_points', M) :
                             PlotSummary(plot_points', M)[l] =
                                [summary |-> p.summary,
                                 entries |-> p.status_history]
        /\ last'.op = "update_character_state" =>
              \E i \in DOMAIN characters' :
                 LET c == characters'[i]
                     e == c.state_history[Len(c.state_history)]
                     shown == GetCharacterSummaries(characters')[i].entries
                 IN
                 /\ IF HasKey(characters, c.key)
                    THEN c.state_history =
                            Append(DictGet(characters, c.key).state_history, e)
                    ELSE c.state_history = <<e>> /\ i = Len(characters) + 1
                 /\ shown[Len(shown)] = e
                 /\ \A M \in Targets : M > c.first_appearance /\ M > e.episode =>
                       \E l \in DOMAIN CharacterSummary(characters', M) :
                          LET line == CharacterSummary(characters', M)[l] IN
                          /\ line.name = c.key
                          /\ line.entries[Len(line.entries)] = e
        /\ last'.op = "update_plot_status" =>
              LET p == DictGet(plot_points', Str(last'.n))
                  e == p.status_history[Len(p.status_history)]
              IN
              /\ p.status_history =
                    Append(DictGet(plot_points, Str(last'.n)).status_history, e)
              /\ p.status = e.status]_vars

\* a plot point added, and returned with its id, while the files could not
\* be written, on a store that already holds a character
C18_Witness ==
    /\ last.op = "add_plot_point" /\ ~last.saved
    /\ last.retId = 1
    /\ HasKey(plot_points, "1")
    /\ LoadPersistentData(disk).plot_points = <<>>
    /\ Len(characters) > 0

-----------------------------------------------------------------------------
(* Properties of two stories side by side *)

\* C19: a call on one story's MemoryManager changes neither the tables of
\* the other story nor the files the other story loads and writes.
C19_StoriesShareNothing ==
    [][\A s, t \in StoryIds :
        (s /= t /\ stories[s].created /\ stories'[s] /= stories[s]) =>
            /\ stories'[t] = stories[t]
            /\ FilesAt(DbPath(t))' = FilesAt(DbPath(t))]_vars

-----------------------------------------------------------------------------
(* Properties of planning *)

\* the number of plot points store_plan adds for an outline
RECURSIVE PlanPlotCount(_)
PlanPlotCount(outline) ==
    IF outline = <<>> THEN 0
    ELSE 1 + Len(Head(outline).key_points) + PlanPlotCount(Tail(outline))

\* C20: after a successful plan_story the store holds an episode-0 history
\* entry for every character of the plan and, for every episode of the
\* outline, one plot point for its objective and one per key point, each
\* 'planned' with episode_added 0; all of them are shown by
\* get_context_summary(1).
C20_PlanSeedsStore ==
    [][(run'.op = "plan_story" /\ run'.ok) =>
        LET plan == story_plan'
            context == GetContextSummary(characters', plot_points', 1)
        IN
        /\ \A i \in DOMAIN plan.characters :
              /\ HasKey(characters', plan.characters[i].name)
              /\ \E j \in DOMAIN DictGet(characters',
                                         plan.characters[i].name).state_history :
                    DictGet(characters',
                            plan.characters[i].name).state_history[j].episode = 0
              /\ \E l \in DOMAIN context.characters :
                    /\ context.characters[l].name = plan.characters[i].name
                    /\ \E j \in DOMAIN context.characters[l].entries :
                          context.characters[l].entries[j].episode = 0
        /\ Len(plot_points') = Len(plot_points) + PlanPlotCount(plan.master_outline)
        /\ plot_counter' = plot_counter + PlanPlotCount(plan.master_outline)
        /\ \A i \in DOMAIN plot_points' :
              LET p == plot_points'[i] IN
              ~HasKey(plot_points, p.key) =>
                 /\ p.status = "planned" /\ p.episode_added = 0
                 /\ \E l \in DOMAIN context.plots :
                       context.plots[l] =
                          [summary |-> p.summary,
                           entries |-> <<[episode |-> 0, status |-> "planned"]>>]
      ]_vars

\* C21: when the user input is empty, the planning call raises, or its
\* answer is empty or is not JSON, plan_story returns False, does not raise,
\* and writes nothing to the store, its files or the index.
C21_FailedPlanSeedsNothing ==
    [][(run'.op = "plan_story"
            /\ run'.planner \in {"not_called", "raises", "empty",
                                 "invalid_json"}) =>
        /\ ~run'.ok /\ ~run'.raised
        /\ UNCHANGED <<characters, plot_points, plot_counter, disk,
                       vector_store>>]_vars

\* an answer that is not JSON, received on a store that a plan and an
\* episode have already filled
C21_Witness ==
    /\ run.op = "plan_story" /\ run.planner = "invalid_json"
    /\ ~run.ok
    /\ Len(characters) > 0
    /\ generated_episodes /= <<>>

\* C22: a generate_episode(N) run that completes the whole pipeline returns
\* the script and a critique that is a text (the critique step's text or its
\* failure marker), not a composite holding the script, and the stored entry
\* for N holds the same script and the same critique.
C22_CritiqueIsText ==
    (run.op = "generate_episode" /\ run.add_chunks_called) =>
        /\ run.has_script
        /\ ~run.critique.is_pair
        /\ run.critique.text \in
               {o.text : o \in {c \in CritiqueOutcomes : c.ok}}
                   \cup {CritiqueFailedMarker}
        /\ GetEpisodeData(generated_episodes, run.n) =
               [present |-> TRUE, script |-> run.script,
                critique |-> run.critique]

C24_NewIdsAboveExisting ==
    [][last'.op = "update_memory_from_script" =>
        \A i \in DOMAIN last'.new_ids :
            /\ \A j \in DOMAIN plot_points :
                  last'.new_ids[i] > plot_points[j].id
            /\ DictGet(plot_points', Str(last'.new_ids[i])).status_history =
                  <<[episode |-> last'.n, status |-> DefaultStatus]>>]_vars

HasTextRef(outcome) ==
    /\ outcome.kind = "json"
    /\ \E i \in DOMAIN outcome.plot_updates :
          /\ outcome.plot_updates[i].is_object
          /\ outcome.plot_updates[i].plot_summary_or_id.type /= "int"

IntegerRef(update) ==
    ~update.is_object \/ update.plot_summary_or_id.type = "int"

WithoutTextRefs(outcome) ==
    [outcome EXCEPT !.plot_updates = SelectSeq(@, IntegerRef)]

\* C25: a plot update whose reference is not an integer changes no plot
\* point, does not raise, and leaves the other plot updates and the new plot
\* points of the same extraction to be applied: the step ends as it would
\* without that update.
C25_TextRefIsNoOp ==
    [][(last'.op = "update_memory_from_script"
            /\ HasTextRef(last'.extraction)) =>
        LET m == ApplyExtraction(Memory(characters, plot_points, plot_counter),
                                 WithoutTextRefs(last'.extraction), last'.n)
        IN /\ characters' = m.characters
           /\ plot_points' = m.plot_points
           /\ plot_counter' = m.plot_counter
           /\ last'.raised = m.raised
           /\ ~WrongShape(last'.extraction) => ~last'.raised]_vars

\* an extraction that names a plot point by its summary "s" and then plot
\* point 1 by id: plot point 1, whose summary is "s", was resolved once, by
\* the integer reference, and the new plot point was added after it
C25_Witness ==
    /\ last.op = "update_memory_from_script"
    /\ HasTextRef(last.extraction)
    /\ ~last.raised
    /\ Len(last.new_ids) > 0
    /\ \A i \in DOMAIN last.new_ids : last.new_ids[i] > 1
    /\ HasKey(plot_points, "1")
    /\ DictGet(plot_points, "1").summary = "s"
    /\ DictGet(plot_points, "1").status = "resolved"
    /\ Len(DictGet(plot_points, "1").status_history) = 2

\* C26: after a mutating store operation whose save met no write failure,
\* the persisted character table, plot table and id counter equal the
\* in-memory characters, plot_points and plot_counter.
C26_PersistedEqualsMemory ==
    (last.op \in StoreMutations /\ last.saved) =>
        /\ disk.hasChars /\ disk.hasPlots /\ disk.hasCounter
        /\ disk.chars = characters
        /\ disk.plots = plot_points
        /\ disk.counter = plot_counter

\* the calls of the generation service that returned a text
Succeeded == {i \in DOMAIN calls : calls[i].ok}

LimitAnnotated == Contains(ScriptOf(gen), SceneLimitMarker[1])

\* C27: the script carries the scene-limit annotation if and only if exactly
\* MAX_SCENES_PER_EPISODE scenes were generated successfully and none of them
\* ended with the end-of-episode marker; when scene n ends with the marker no
\* further scene is requested and no annotation is appended.
C27_LimitAnnotation ==
    /\ LimitAnnotated <=>
          /\ Cardinality(Succeeded) = MAX_SCENES_PER_EPISODE
          /\ \A i \in Succeeded : ~EndsWith(calls[i].content, EndMarker)
    /\ \A i \in Succeeded :
          EndsWith(calls[i].content, EndMarker) =>
              i = Len(calls) /\ ~LimitAnnotated

\* C28: when the call of the generation service for scene n raises, the
\* script is the texts of scenes 1..n-1 in order, unchanged, followed by one
\* error marker naming scene n, and no call of the service follows.
C28_ServiceFailureKeepsScenes ==
    \A n \in DOMAIN calls :
        ~calls[n].ok =>
            /\ n = Len(calls)
            /\ gen.pc = "done"
            /\ ScriptOf(gen) =
                  Join([j \in 1..(n - 1) |-> calls[j].content]
                           \o <<SceneErrorMarker(calls[n].scene)>>)
            /\ \A j \in 1..(n - 1) : calls[j].ok

\* the service raises at the third scene, after two scenes it returned
C28_Witness ==
    /\ Len(calls) = 3
    /\ calls[1].ok /\ calls[2].ok /\ ~calls[3].ok
    /\ gen.pc = "done"
    /\ Len(gen.full_episode_script) = 3

IsSuffix(s, t) ==
    /\ Len(s) <= Len(t)
    /\ SubSeq(t, Len(t) - Len(s) + 1, Len(t)) = s

\* C29: a scene is reported as failed only if the call of the generation
\* service raised: a text that the service returned is appended to the script
\* and to the rolling summary, whatever it holds.
C29_ReturnedTextIsAppended ==
    \A n \in Succeeded :
        /\ n <= Len(gen.full_episode_script)
        /\ gen.full_episode_script[n] = calls[n].content
        /\ \A k \in DOMAIN gen.full_episode_script :
              gen.full_episode_script[k] /= SceneErrorMarker(n)
        /\ \/ n < Len(calls)
           \/ IsSuffix(calls[n].content, gen.previous_scenes_summary)

\* the texts of a summary without the separators between them
RECURSIVE Texts(_)
Texts(summary) ==
    IF summary = <<>> THEN <<>>
    ELSE IF Head(summary) = Separator THEN Texts(Tail(summary))
    ELSE <<Head(summary)>> \o Texts(Tail(summary))

\* the texts of the first k scenes of this run, one after the other
RECURSIVE ScenesUpTo(_)
ScenesUpTo(k) ==
    IF k = 0 THEN <<>> ELSE ScenesUpTo(k - 1) \o calls[k].content

\* C30: the call for scene n is given, as previous-scene context, the texts
\* of scenes 1..n-1 of this run in order and nothing else; the call for
\* scene 1 is given no text of any scene.
C30_PreviousSceneContext ==
    \A n \in DOMAIN calls :
        IF n = 1
        THEN \A j \in DOMAIN calls : \A k \in DOMAIN calls[j].content :
                ~Contains(calls[1].previous, calls[j].content[k])
        ELSE Texts(calls[n].previous) = ScenesUpTo(n - 1)

\* the request for a fourth scene, after three scenes of which the first two
\* differ
C30_Witness ==
    /\ Len(calls) >= 4
    /\ calls[1].content /= calls[2].content
    /\ Len(Texts(calls[4].previous)) >= 3

\* the entries of a history dated before episode n, in insertion order
Before(history, n) == SelectSeq(history, LAMBDA e : e.episode < n)

\* the k entries inserted last (all of them when there are fewer)
Latest(history, k) ==
    LET m == IF Len(history) < k THEN Len(history) ELSE k
    IN [i \in 1..m |-> history[Len(history) - m + i]]

\* C31: get_context_summary(N) shows, for each character with
\* first_appearance < N, the last two in insertion order of its entries dated
\* before N, and for each plot point with episode_added < N the entry dated
\* before N that was inserted last; characters and plot points that first
\* appear at N or later are left out.
C31_ContextSummaryContent ==
    last.op = "get_context_summary" =>
        LET cs == SelectSeq(characters,
                            LAMBDA c : /\ c.first_appearance < last.n
                                       /\ Before(c.state_history, last.n) /= <<>>)
            ps == SelectSeq(plot_points,
                            LAMBDA p : /\ p.episode_added < last.n
                                       /\ Before(p.status_history, last.n) /= <<>>)
        IN /\ Len(last.context.characters) = Len(cs)
           /\ \A i \in DOMAIN cs :
                 /\ last.context.characters[i].name = cs[i].key
                 /\ last.context.characters[i].entries =
                       Latest(Before(cs[i].state_history, last.n), 2)
           /\ Len(last.context.plots) = Len(ps)
           /\ \A i \in DOMAIN ps :
                 /\ last.context.plots[i].summary = ps[i].summary
                 /\ last.context.plots[i].entries =
                       Latest(Before(ps[i].status_history, last.n), 1)

\* a summary for episode 3 of a character with three earlier entries, the
\* oldest two of which are not the latest two
C31_Witness ==
    /\ last.op = "get_context_summary" /\ last.n = 3
    /\ \E i \in DOMAIN characters :
          /\ Len(characters[i].state_history) = 3
          /\ characters[i].state_history[1] /= characters[i].state_history[3]
    /\ Len(last.context.characters) = 1
    /\ Len(last.context.characters[1].entries) = 2

\* C32: update_character_state creates a character with first_appearance set
\* to the episode of the call and leaves it as it is on later calls; every
\* character has a state_history whose first entry is dated first_appearance
\* and every plot point a status_history whose first entry is dated
\* episode_added, so get_context_summary(N) renders every character with
\* first_appearance < N and every plot point with episode_added < N.
C32_FirstAppearanceFixed ==
    [][/\ last'.op = "update_character_state" =>
             \A j \in DOMAIN characters' :
                 IF HasKey(characters, characters'[j].key)
                 THEN characters'[j].first_appearance =
                          DictGet(characters, characters'[j].key).first_appearance
                 ELSE characters'[j].first_appearance = last'.n
       /\ \A j \in DOMAIN characters' :
             /\ characters'[j].state_history /= <<>>
             /\ characters'[j].state_history[1].episode =
                   characters'[j].first_appearance
       /\ \A j \in DOMAIN plot_points' :
             /\ plot_points'[j].status_history /= <<>>
             /\ plot_points'[j].status_history[1].episode =
                   plot_points'[j].episode_added
       /\ \A n \in Targets :
             LET shown == GetContextSummary(characters', plot_points', n) IN
             /\ \A j \in DOMAIN characters' :
                   characters'[j].first_appearance < n =>
                       \E k \in DOMAIN shown.characters :
                           shown.characters[k].name = characters'[j].key
             /\ \A j \in DOMAIN plot_points' :
                   plot_points'[j].episode_added < n =>
                       \E k \in DOMAIN shown.plots :
                           shown.plots[k].summary = plot_points'[j].summary
      ]_vars

\* an update dated episode 1 of a character created at episode 2, on a store
\* that also holds a plot point
C32_Witness ==
    /\ last.op = "update_character_state" /\ last.n = 1
    /\ \E i \in DOMAIN characters :
          /\ characters[i].first_appearance = 2
          /\ Len(characters[i].state_history) = 2
          /\ characters[i].state_history[2].episode = 1
    /\ plot_points /= <<>>

\* the chunks that hold something other than whitespace, in their order
Retained(chunks) ==
    SelectSeq(chunks, LAMBDA c : \E i \in DOMAIN c : c[i] \notin {"", " ", Separator})

\* the documents in the index before a write: a store brought up by the call
\* starts empty
DocsBefore(vs) == IF vs.up THEN vs.docs ELSE <<>>

ReprovisionEffect ==
    /\ (run'.op = "add_chunks_to_vector_store" /\ ~run'.index_up) =>
          IF run'.reinit_ok
          THEN /\ vector_store'.up
               /\ Len(vector_store'.docs) = Len(Retained(run'.chunks))
               /\ \A i \in DOMAIN vector_store'.docs :
                     vector_store'.docs[i].text = Retained(run'.chunks)[i]
          ELSE /\ ~run'.add_chunks_ok
               /\ ~run'.raised
               /\ vector_store' = vector_store
    /\ (/\ run.op = "add_chunks_to_vector_store"
        /\ ~run.index_up /\ ~run.reinit_ok
        /\ run'.op = "add_chunks_to_vector_store") => ~run'.index_up

ReturnedIds ==
    UNION {{threads[t].ids[i] : i \in DOMAIN threads[t].ids} : t \in ThreadIds}

RECURSIVE SumOver(_, _)
SumOver(ts, field) ==
    IF ts = {} THEN 0
    ELSE LET t == CHOOSE x \in ts : TRUE
         IN (IF field = "ids" THEN Len(threads[t].ids) ELSE threads[t].updates)
                + SumOver(ts \ {t}, field)

\* C35: calls made at the same time on one store take effect as if one
\* after the other: once they have all returned, no two add_plot_point calls
\* have returned the same id, the ids returned are 1..k without a gap, every
\* added plot point is in the table and every appended history entry is in
\* its history.
C35_AsIfSerialized ==
    (\A t \in ThreadIds : threads[t].pc = "idle") =>
        /\ Cardinality(ReturnedIds) = SumOver(ThreadIds, "ids")
        /\ ReturnedIds = 1..SumOver(ThreadIds, "ids")
        /\ Len(plot_points) = SumOver(ThreadIds, "ids")
        /\ SumLen(characters, "state_history") = SumOver(ThreadIds, "updates")

\* C36: a plan_story call that fails leaves the story plan as it was, so a
\* generate_episode for an episode of the earlier plan is still accepted.
C36_FailedPlanKeepsPlan ==
    [][/\ (run'.op = "plan_story" /\ ~run'.ok) => story_plan' = story_plan
       /\ (/\ run.op = "plan_story" /\ ~run.ok
           /\ \E i \in DOMAIN persistLog : persistLog[i].n = 1
           /\ run'.op = "generate_episode" /\ run'.n = 1) =>
               run'.generated]_vars

\* C37: a second generate_episode(N) whose service calls answer as they did
\* in the first leaves characters, plot points and plot counter as the first
\* run left them.
C37_RegenerationIdempotent ==
    [][(/\ run.op = "generate_episode" /\ run.add_chunks_called
        /\ run'.op = "generate_episode" /\ run'.add_chunks_called
        /\ run'.n = run.n
        /\ run'.script = run.script
        /\ run'.critique = run.critique
        /\ run'.answer = run.answer) =>
            UNCHANGED <<characters, plot_points, plot_counter>>]_vars

\* the status of a plot point is the status of its last history entry, and
\* its id is the integer its key spells
PlotPointSelfConsistent(p) ==
    /\ p.status_history /= <<>>
    /\ p.status = p.status_history[Len(p.status_history)].status
    /\ p.key = Str(p.id)

\* C38: every plot point of the table is self-consistent (status = last
\* history entry, id = integer of its key) and plot_counter is at least as
\* large as every id of the table.
C38_PlotTableConsistent ==
    \A i \in DOMAIN plot_points :
        /\ PlotPointSelfConsistent(plot_points[i])
        /\ plot_counter >= plot_points[i].id

\* file k of the location exists and json.load can parse it
Readable(d, k) == Exists(d, k) /\ k \notin d.bad

\* C39: constructing a MemoryManager over a location with an unparseable
\* file does not raise and loads the other, readable files; a later mutation
\* never replaces a readable, non-empty persisted table by an empty one.
C39_ReadableFilesSurvive ==
    [][/\ (last'.op = "restart" /\ disk.bad /= {}) =>
            /\ ~last'.raised
            /\ Readable(disk, CharsFile) =>
                    characters' = JsonLoad(disk.chars)
            /\ Readable(disk, PlotsFile) =>
                    plot_points' = JsonLoad(disk.plots)
       /\ (last'.op \in {"update_character_state", "add_plot_point"}) =>
            /\ (Readable(disk, CharsFile) /\ disk.chars /= <<>>) =>
                    disk'.chars /= <<>>
            /\ (Readable(disk, PlotsFile) /\ disk.plots /= <<>>) =>
                    disk'.plots /= <<>>]_vars

====
